---------------------------- MODULE Spec2Model ----------------------------
(***************************************************************************)
(* Conversation orchestration and support-action engine of the customer    *)
(* support chatbot backend (backend/app/services/chat_service.py,          *)
(* backend/app/mcp/server.py, backend/app/api/endpoints/chat.py).          *)
(*                                                                         *)
(* The persistent store is the four tables conversations, messages,        *)
(* customers and support_actions.  Every request handler owns a database   *)
(* session: rows it has added or flushed are pending until its commit and  *)
(* are dropped when the session is closed without one.                     *)
(*                                                                         *)
(* Scheduling: main.py starts one uvicorn process, so all handlers share   *)
(* one event loop.  A handler gives the loop away only at an await that    *)
(* suspends.  ChatService.send_message is declared async but calls the     *)
(* generation capability synchronously, so a turn holds the loop from its  *)
(* first query to its commit.  The variable loop names the handler that    *)
(* holds the loop in the middle of a turn.                                 *)
(*                                                                         *)
(* The service never sets organization_id on the rows it creates; the      *)
(* model stores them with organization_id = NoOrg, as the rows that        *)
(* migrate_to_multitenant.py later assigns to the default organization.    *)
(***************************************************************************)
EXTENDS Integers, Sequences, FiniteSets, TLC

\* ------------------------------------------------------------------ bounds
MaxConversations == 1
MaxTurnConversations == 2
MaxMessageId == 4
MaxActions == 2
MaxTime == 1

\* ------------------------------------------------------------- value sets
Requests == {"r1", "r2"}
NoOrg == "null"
Orgs == {"demo", "default"}
NoName == "null"
Emails == {"john.doe@example.com", "new@x.com"}
CustomerNames == {NoName}
Contents == {"hi"}
ModelTexts == {"generated reply"}
DefaultReason == "Customer request"
Reasons == {DefaultReason, "angry"}
SenderTypes == {"customer", "human_agent"}
ConversationStatus == {"active", "resolved", "escalated", "archived"}
SupportActionStatus == {"pending", "in_progress", "completed", "failed", "cancelled"}
TerminalActionStatus == {"completed", "failed", "cancelled"}
SubscriptionActions == {"cancel", "pause", "change_plan", "upgrade"}
Plans == {"", "basic"}
SessionIds == 0..MaxTurnConversations
Sockets == {"w1", "w2"}
Frames == {"malformed", "message", "escalate"}

VARIABLES
    conversations,      \* table conversations, row id = index
    messages,           \* table messages: committed rows, each with its id
    customers,          \* table customers, row id = index
    support_actions,    \* table support_actions, row id = index
    nextMessageId,      \* the id sequence of table messages
    now,                \* the database clock behind server_default=func.now()
    loop,               \* the handler holding the event loop mid-turn, or "none"
    req,                \* per handler: position, locals, session, response
    toolResult,         \* what the last executor call returned
    active_connections, \* ConnectionManager.active_connections
    sockets             \* per WebSocket: its handler's position and session

vars == <<conversations, messages, customers, support_actions, nextMessageId,
          now, loop, req, toolResult, active_connections, sockets>>

\* ----------------------------------------------------------------- records
NoAI ==
    [called |-> FALSE, failed |-> FALSE, raised |-> FALSE, success |-> FALSE,
     response |-> "",
     confidence |-> 0, suggested_actions |-> <<>>, error_note |-> ""]

NoResult ==
    [kind |-> "none", message_id |-> 0, ai_message_id |-> 0, ai_response |-> "",
     confidence |-> 0, error |-> FALSE, history |-> <<>>, session_id |-> 0,
     message_count |-> 0, status |-> "", success |-> FALSE]

IdleReq ==
    [pc |-> "idle", op |-> "none", org |-> NoOrg, sid |-> 0, conv |-> 0,
     customer |-> 0,
     sender |-> "", pending |-> {}, history |-> {}, ai |-> NoAI,
     result |-> NoResult, disconnected_at |-> ""]

NoToolResult ==
    [tool |-> "none", success |-> FALSE, action_id |-> 0, reference |-> <<>>,
     message |-> ""]

NewSocket == [state |-> "new", session_id |-> 0, db_open |-> FALSE]

\* ------------------------------------------------------------------ queries
\* db.query(Conversation).filter(Conversation.session_id == sid).first()
FindConversation(sid) ==
    LET hits == {i \in DOMAIN conversations : conversations[i].session_id = sid}
    IN  IF hits = {} THEN 0 ELSE CHOOSE i \in hits : \A j \in hits : i <= j

\* Variant: the query has no filter and returns the first Customer.
FindCustomerFirstRow(email) == IF customers = <<>> THEN 0 ELSE 1

\* Variant: the query finds nothing.
FindCustomerNone(email) == 0

\* db.query(Customer).filter(Customer.email == email).first()
FindCustomer(email) ==
    LET hits == {i \in DOMAIN customers : customers[i].email = email}
    IN  IF hits = {} THEN 0 ELSE CHOOSE i \in hits : \A j \in hits : i <= j

\* The rows of one conversation a session sees: committed ones and its own.
VisibleMessages(r, conv) ==
    {m \in messages \cup req[r].pending : m.conversation_id = conv}

CommittedMessages(conv) == {m \in messages : m.conversation_id = conv}

NewMessage(id, conv, content, sender, conf, sugg, err) ==
    [id |-> id, conversation_id |-> conv, content |-> content,
     sender_type |-> sender, created_at |-> now, confidence |-> conf,
     suggested_actions |-> sugg, error |-> err]

\* ------------------------------------------------------------------- Init
SampleCustomer ==
    [email |-> "john.doe@example.com", name |-> "John Doe",
     subscription_status |-> "active", subscription_plan |-> "pro",
     total_conversations |-> 0, organization_id |-> "demo"]

Init ==
    /\ conversations = <<>>
    /\ messages = {}
    /\ customers = <<SampleCustomer>>
    /\ support_actions = <<>>
    /\ nextMessageId = 1
    /\ now = 0
    /\ loop = "none"
    /\ req = [r \in Requests |-> IdleReq]
    /\ toolResult = NoToolResult
    /\ active_connections = <<>>
    /\ sockets = [w \in Sockets |-> NewSocket]

\* ------------------------------------------------------------------ clock
Tick ==
    /\ now < MaxTime
    /\ now' = now + 1
    /\ UNCHANGED <<conversations, messages, customers, support_actions,
                   nextMessageId, loop, req, toolResult>>
    /\ UNCHANGED <<active_connections, sockets>>


\* ------------------------------------------------------- session and loop
\* Variant: the generation call is awaited and suspends the coroutine.
GenerateSuspendsAwaited == TRUE

\* send_message calls generate_ai_response as a plain synchronous call: the
\* coroutine does not give the event loop away while the model is generating.
GenerateSuspends == FALSE

\* Variant: the rows are committed where the code flushes them.
FlushAsCommit(r, rows) ==
    [committed |-> messages \cup req[r].pending \cup rows, pending |-> {}]

\* Session.flush(): the rows are sent to the database inside the open
\* transaction; they stay invisible to other sessions until the commit.
Flush(r, rows) ==
    [committed |-> messages, pending |-> req[r].pending \cup rows]

\* ------------------------------------------------------------ AI gateway
SuccessConfidence == 85
FallbackConfidence == 75
FallbackResponse == "Hello! I understand you need help with your subscription."
FallbackSuggestedActions == <<"billing_inquiry", "subscription_change">>
ApologyText == "I apologize, but I'm experiencing technical difficulties."

\* Variant: no except branch, the provider's exception leaves the gateway.
generate_ai_response_reraises(failed, text) ==
    [called |-> TRUE, failed |-> failed, raised |-> failed, success |-> ~failed,
     response |-> IF failed THEN "" ELSE text,
     confidence |-> IF failed THEN 0 ELSE SuccessConfidence,
     suggested_actions |-> <<>>, error_note |-> ""]

\* generate_ai_response: the generation call either returns a text or throws;
\* the except branch turns the exception into a mock response.
generate_ai_response(failed, text) ==
    IF ~failed
    THEN [called |-> TRUE, failed |-> FALSE, raised |-> FALSE, success |-> TRUE,
          response |-> text, confidence |-> SuccessConfidence,
          suggested_actions |-> <<>>, error_note |-> ""]
    ELSE [called |-> TRUE, failed |-> TRUE, raised |-> FALSE, success |-> TRUE,
          response |-> FallbackResponse, confidence |-> FallbackConfidence,
          suggested_actions |-> FallbackSuggestedActions,
          error_note |-> "Gemini API error (using fallback)"]

\* ------------------------------------------------ ChatService operations
\* create_conversation: one run-to-completion block ending in one commit.
\* org is the tenant of the caller; the service is not given it.  The number
\* of conversations is capped where the specifications call the operation.
create_conversation(r, org, email, name, dbok) ==
    /\ loop = "none"
    /\ req[r].pc = "idle"
    /\ LET found == FindCustomer(email)
           cid == IF found = 0 THEN Len(customers) + 1 ELSE found
           row == [email |-> email, name |-> name,
                   subscription_status |-> "unknown",
                   subscription_plan |-> "none", total_conversations |-> 0,
                   organization_id |-> NoOrg]
           custs == IF found = 0 THEN Append(customers, row) ELSE customers
           sid == Len(conversations) + 1
           conv == [session_id |-> sid, customer_email |-> email,
                    customer_name |-> IF name # NoName THEN name
                                      ELSE custs[cid].name,
                    status |-> "active", ai_enabled |-> TRUE,
                    organization_id |-> NoOrg]
       IN  IF dbok
           THEN /\ customers' = custs
                /\ conversations' = Append(conversations, conv)
                /\ req' = [req EXCEPT ![r] =
                       [IdleReq EXCEPT !.pc = "done", !.op = "start",
                            !.org = org, !.customer = cid, !.sid = sid,
                            !.conv = Len(conversations) + 1,
                            !.result = [NoResult EXCEPT !.kind = "ok",
                                                  !.session_id = sid]]]
           ELSE /\ UNCHANGED <<customers, conversations>>
                /\ req' = [req EXCEPT ![r] =
                       [IdleReq EXCEPT !.pc = "done", !.op = "start",
                            !.org = org,
                            !.result = [NoResult EXCEPT !.kind = "DatabaseError"]]]
    /\ UNCHANGED <<messages, support_actions, nextMessageId, now, loop,
                   toolResult>>
    /\ UNCHANGED <<active_connections, sockets>>

\* send_message, lines 47-64: look the conversation up, add the sender's
\* Message, flush it and put its id into response_data.
send_message_begin(r, sid, content, sender, dbok) ==
    /\ loop = "none"
    /\ req[r].pc = "idle"
    /\ nextMessageId < MaxMessageId
    /\ LET conv == FindConversation(sid)
           row == NewMessage(nextMessageId, conv, content, sender, 0, <<>>, "")
           fl == Flush(r, {row})
       IN  IF conv = 0
           THEN /\ req' = [req EXCEPT ![r] =
                       [IdleReq EXCEPT !.pc = "done", !.op = "send",
                            !.sid = sid, !.sender = sender,
                            !.result = [NoResult EXCEPT !.kind = "ValueError"]]]
                /\ UNCHANGED <<messages, nextMessageId, loop>>
           ELSE IF ~dbok
           THEN /\ req' = [req EXCEPT ![r] =
                       [IdleReq EXCEPT !.pc = "done", !.op = "send",
                            !.sid = sid, !.conv = conv, !.sender = sender,
                            !.result = [NoResult EXCEPT !.kind = "DatabaseError"]]]
                /\ UNCHANGED <<messages, nextMessageId, loop>>
           ELSE /\ messages' = fl.committed
                /\ nextMessageId' = nextMessageId + 1
                /\ req' = [req EXCEPT ![r] =
                       [IdleReq EXCEPT !.pc = "flushed", !.op = "send",
                            !.sid = sid, !.conv = conv, !.sender = sender,
                            !.pending = fl.pending,
                            !.result = [NoResult EXCEPT
                                           !.message_id = row.id]]]
                /\ loop' = IF sender = "customer" /\ GenerateSuspends
                           THEN "none" ELSE r
    /\ UNCHANGED <<conversations, customers, support_actions, now, toolResult>>
    /\ UNCHANGED <<active_connections, sockets>>

\* Variant: a response is generated for every sender.
GeneratesResponseAlways(sender_type) == TRUE

\* send_message: if sender_type == "customer".
GeneratesResponse(sender_type) == sender_type = "customer"

\* send_message, lines 67-76: read the history, call the gateway.
send_message_generate(r, failed, text) ==
    /\ req[r].pc = "flushed"
    /\ GeneratesResponse(req[r].sender)
    /\ loop = IF GenerateSuspends THEN "none" ELSE r
    /\ LET ai == generate_ai_response(failed, text)
       IN  IF ai.raised
           THEN /\ req' = [req EXCEPT ![r].pc = "done", ![r].pending = {},
                               ![r].ai = ai,
                               ![r].history = VisibleMessages(r, req[r].conv),
                               ![r].result.kind = "GenerationError"]
                /\ loop' = "none"
           ELSE /\ req' = [req EXCEPT ![r].pc = "generated", ![r].ai = ai,
                               ![r].history = VisibleMessages(r, req[r].conv)]
                /\ loop' = r
    /\ UNCHANGED <<conversations, messages, customers, support_actions,
                   nextMessageId, now, toolResult>>
    /\ UNCHANGED <<active_connections, sockets>>

\* Variant: the turn escalates the conversation when the gateway fell back.
TurnStatusEscalatedOnFallback(status, ai) ==
    IF ai.failed THEN "escalated" ELSE status

\* send_message assigns no attribute of the Conversation it has loaded: its
\* commit writes the status back as it was read.
TurnStatus(status, ai) == status

\* Variant: the result is returned as it was built before the gateway call.
response_data_before_ai(q, aiRow) == [q.result EXCEPT !.kind = "ok"]

\* response_data: the id of the sender's Message, updated with the ai
\* Message's text and id (and the error flag in the error branch).
response_data(q, aiRow) ==
    IF ~GeneratesResponse(q.sender) THEN [q.result EXCEPT !.kind = "ok"]
    ELSE IF q.ai.success
    THEN [q.result EXCEPT !.kind = "ok",
              !.ai_response = q.ai.response,
              !.ai_message_id = aiRow.id,
              !.confidence = q.ai.confidence]
    ELSE [q.result EXCEPT !.kind = "ok",
              !.ai_response = ApologyText,
              !.ai_message_id = aiRow.id, !.error = TRUE]

\* send_message, lines 78-120: add the ai Message (the response, or the
\* apology when the gateway reports no success) and commit the turn.
send_message_commit(r, dbok) ==
    /\ loop = r
    /\ \/ req[r].pc = "generated"
       \/ req[r].pc = "flushed" /\ ~GeneratesResponse(req[r].sender)
    /\ LET q == req[r]
           ai == q.ai
           withAI == GeneratesResponse(q.sender)
           aiRow == IF ai.success
                    THEN NewMessage(nextMessageId, q.conv, ai.response, "ai",
                                    ai.confidence, ai.suggested_actions, "")
                    ELSE NewMessage(nextMessageId, q.conv, ApologyText, "ai",
                                    0, <<>>, "Unknown error")
           rows == IF withAI THEN q.pending \cup {aiRow} ELSE q.pending
           res == response_data(q, aiRow)
       IN  IF ~dbok
           THEN /\ req' = [req EXCEPT ![r].pc = "done", ![r].pending = {},
                               ![r].result = [q.result EXCEPT !.kind = "DatabaseError"]]
                /\ UNCHANGED <<messages, nextMessageId, conversations>>
           ELSE /\ messages' = messages \cup rows
                /\ conversations' = [conversations EXCEPT
                       ![q.conv].status = TurnStatus(@, q.ai)]
                /\ nextMessageId' = IF withAI THEN nextMessageId + 1
                                    ELSE nextMessageId
                /\ req' = [req EXCEPT ![r].pc = "done", ![r].pending = {},
                               ![r].result = res]
    /\ loop' = "none"
    /\ UNCHANGED <<customers, support_actions, now, toolResult>>
    /\ UNCHANGED <<active_connections, sockets>>

\* escalate_conversation: sets the status and adds the system Message in one
\* commit; there is no check of the status the conversation already has.
EscalationText(reason) == "Conversation escalated to human agent. Reason: " \o reason

escalate_conversation(r, sid, reason, dbok) ==
    /\ loop = "none"
    /\ req[r].pc = "idle"
    /\ nextMessageId <= MaxMessageId
    /\ LET conv == FindConversation(sid)
           row == NewMessage(nextMessageId, conv, EscalationText(reason),
                             "system", 0, <<>>, "")
       IN  IF conv = 0
           THEN /\ req' = [req EXCEPT ![r] =
                       [IdleReq EXCEPT !.pc = "done", !.op = "escalate",
                            !.sid = sid,
                            !.result = [NoResult EXCEPT !.kind = "ValueError"]]]
                /\ UNCHANGED <<conversations, messages, nextMessageId>>
           ELSE IF ~dbok
           THEN /\ req' = [req EXCEPT ![r] =
                       [IdleReq EXCEPT !.pc = "done", !.op = "escalate",
                            !.sid = sid, !.conv = conv,
                            !.result = [NoResult EXCEPT !.kind = "DatabaseError"]]]
                /\ UNCHANGED <<conversations, messages, nextMessageId>>
           ELSE /\ conversations' =
                       [conversations EXCEPT ![conv].status = "escalated"]
                /\ messages' = messages \cup {row}
                /\ nextMessageId' = nextMessageId + 1
                /\ req' = [req EXCEPT ![r] =
                       [IdleReq EXCEPT !.pc = "done", !.op = "escalate",
                            !.sid = sid, !.conv = conv,
                            !.result = [NoResult EXCEPT !.kind = "ok",
                                           !.message_id = row.id,
                                           !.success = TRUE]]]
    /\ UNCHANGED <<customers, support_actions, now, loop, toolResult>>
    /\ UNCHANGED <<active_connections, sockets>>

\* ORDER BY created_at: every order of the rows in which created_at never
\* decreases; rows with equal created_at come in an order the database picks.
OrderedByCreatedAt(rows) ==
    LET ids == {m.id : m \in rows}
        at(i) == (CHOOSE m \in rows : m.id = i).created_at
        n == Cardinality(ids)
    IN  {h \in [1..n -> ids] :
            /\ \A i, j \in 1..n : i # j => h[i] # h[j]
            /\ \A i, j \in 1..n : i < j => at(h[i]) <= at(h[j])}

\* get_conversation_history: [] for an unknown session id.
get_conversation_history(r, sid) ==
    /\ loop = "none"
    /\ req[r].pc = "idle"
    /\ LET conv == FindConversation(sid)
       IN  \E h \in (IF conv = 0 THEN {<<>>}
                     ELSE OrderedByCreatedAt(VisibleMessages(r, conv))) :
               req' = [req EXCEPT ![r] =
                   [IdleReq EXCEPT !.pc = "done", !.op = "history",
                        !.sid = sid, !.conv = conv,
                        !.result = [NoResult EXCEPT !.kind = "ok",
                                       !.history = h]]]
    /\ UNCHANGED <<conversations, messages, customers, support_actions,
                   nextMessageId, now, loop, toolResult>>
    /\ UNCHANGED <<active_connections, sockets>>

\* Variant: only the Messages of the customer are counted.
message_count_of_customer(r, conv) ==
    Cardinality({m \in VisibleMessages(r, conv) : m.sender_type = "customer"})

\* db.query(Message).filter(conversation_id == conversation.id).count()
message_count(r, conv) == Cardinality(VisibleMessages(r, conv))

\* get_conversation_summary
get_conversation_summary(r, sid) ==
    /\ loop = "none"
    /\ req[r].pc = "idle"
    /\ LET conv == FindConversation(sid)
       IN  req' = [req EXCEPT ![r] =
               [IdleReq EXCEPT !.pc = "done", !.op = "summary", !.sid = sid,
                    !.conv = conv,
                    !.result =
                        IF conv = 0
                        THEN [NoResult EXCEPT !.kind = "ValueError"]
                        ELSE [NoResult EXCEPT !.kind = "ok",
                                 !.session_id = sid,
                                 !.status = conversations[conv].status,
                                 !.message_count = message_count(r, conv)]]]
    /\ UNCHANGED <<conversations, messages, customers, support_actions,
                   nextMessageId, now, loop, toolResult>>
    /\ UNCHANGED <<active_connections, sockets>>

\* The status of a conversation is also written from outside the service: a
\* human agent resolves or archives it (ConversationUpdate.status).
update_conversation_status(sid, status) ==
    /\ loop = "none"
    /\ LET conv == FindConversation(sid)
       IN  /\ conv # 0
           /\ conversations[conv].status # status
           /\ conversations' = [conversations EXCEPT ![conv].status = status]
    /\ UNCHANGED <<messages, customers, support_actions, nextMessageId, now,
                   loop, req, toolResult>>
    /\ UNCHANGED <<active_connections, sockets>>

\* The ai_enabled flag of a conversation is written from outside the service
\* as well: a human agent takes the conversation over or hands it back
\* (ConversationUpdate.ai_enabled).
update_conversation_ai_enabled(sid, flag) ==
    /\ loop = "none"
    /\ LET conv == FindConversation(sid)
       IN  /\ conv # 0
           /\ conversations[conv].ai_enabled # flag
           /\ conversations' = [conversations EXCEPT ![conv].ai_enabled = flag]
    /\ UNCHANGED <<messages, customers, support_actions, nextMessageId, now,
                   loop, req, toolResult>>
    /\ UNCHANGED <<active_connections, sockets>>

\* Variant: the handler task is cancelled the moment the socket drops.
HandlerCancelledOnDrop == TRUE

\* websocket_endpoint: WebSocketDisconnect is raised by receive_text and
\* send_text only; nothing cancels the handler while it runs a turn.
HandlerCancelled == FALSE

\* The client's WebSocket drops while the handler is working on a frame.
Disconnect(r) ==
    /\ req[r].op = "send"
    /\ req[r].pc \in {"flushed", "generated", "done"}
    /\ req[r].disconnected_at = ""
    /\ IF HandlerCancelled /\ req[r].pc # "done"
       THEN /\ req' = [req EXCEPT ![r].disconnected_at = req[r].pc,
                           ![r].pc = "done", ![r].pending = {},
                           ![r].result.kind = "Cancelled"]
            /\ loop' = "none"
       ELSE /\ req' = [req EXCEPT ![r].disconnected_at = req[r].pc]
            /\ UNCHANGED loop
    /\ UNCHANGED <<conversations, messages, customers, support_actions,
                   nextMessageId, now, toolResult>>
    /\ UNCHANGED <<active_connections, sockets>>

\* ----------------------------------------------------- WebSocket registry
\* websocket_endpoint up to its loop: manager.connect accepts the socket and
\* stores it under the session id, replacing what was stored there; then the
\* handler opens its database session.  The session id is not looked up.
connect(w, sid) ==
    /\ sockets[w].state = "new"
    /\ active_connections' =
           [s \in DOMAIN active_connections \cup {sid} |->
               IF s = sid THEN w ELSE active_connections[s]]
    /\ sockets' = [sockets EXCEPT ![w] =
           [state |-> "open", session_id |-> sid, db_open |-> TRUE]]
    /\ UNCHANGED <<conversations, messages, customers, support_actions,
                   nextMessageId, now, loop, req, toolResult>>

\* receive_text raises WebSocketDisconnect: manager.disconnect deletes the
\* entry of the session id, whichever socket it holds; finally db.close().
receive_disconnect(w) ==
    /\ sockets[w].state = "open"
    /\ active_connections' =
           [s \in DOMAIN active_connections \ {sockets[w].session_id} |->
               active_connections[s]]
    /\ sockets' = [sockets EXCEPT ![w].state = "ended", ![w].db_open = FALSE]
    /\ UNCHANGED <<conversations, messages, customers, support_actions,
                   nextMessageId, now, loop, req, toolResult>>

\* A frame whose handling raises: json.loads on a malformed frame, or the
\* ValueError of send_message / escalate_conversation for a session id with
\* no Conversation.  The except Exception branch sends an error frame and
\* the handler ends through finally db.close(); manager.disconnect is not
\* called.
receive_failing_frame(w, frame) ==
    /\ sockets[w].state = "open"
    /\ frame = "malformed" \/ FindConversation(sockets[w].session_id) = 0
    /\ sockets' = [sockets EXCEPT ![w].state = "ended", ![w].db_open = FALSE]
    /\ UNCHANGED <<conversations, messages, customers, support_actions,
                   nextMessageId, now, loop, req, toolResult,
                   active_connections>>

\* The handler has answered: its response is delivered (or, on a dropped
\* socket, send_text raises WebSocketDisconnect), its session closed.
Respond(r) ==
    /\ req[r].pc = "done"
    /\ req' = [req EXCEPT ![r] = IdleReq]
    /\ UNCHANGED <<conversations, messages, customers, support_actions,
                   nextMessageId, now, loop, toolResult>>
    /\ UNCHANGED <<active_connections, sockets>>

\* ------------------------------------------------------------- executors
\* Variant: the refund is logged but left pending.
RefundStatusPending == "pending"

\* process_refund logs its SupportAction with status="completed".
RefundStatus == "completed"

\* Variant: every refund is given the same reference.
RefundIdFixed(id) == <<"REF", 1>>

\* process_refund returns "refund_id": f"REF-{action.id}".
RefundId(id) == <<"REF", id>>

NewAction(type, status, email, action, old_plan, new_plan, reason) ==
    [conversation_id |-> 0, action_type |-> type, status |-> status,
     executed_by_ai |-> FALSE, error_message |-> "",
     action_data |-> [customer_email |-> email, action |-> action,
                      old_plan |-> old_plan, new_plan |-> new_plan,
                      reason |-> reason]]

\* process_refund: logs the refund as a SupportAction and commits; any
\* exception becomes a failure result and the session is closed uncommitted.
process_refund(email, dbok) ==
    /\ Len(support_actions) < MaxActions
    /\ LET id == Len(support_actions) + 1
           row == NewAction("refund", RefundStatus, email, "", "", "", "r")
       IN  IF dbok
           THEN /\ support_actions' = Append(support_actions, row)
                /\ toolResult' = [tool |-> "process_refund", success |-> TRUE,
                                  action_id |-> id, reference |-> RefundId(id),
                                  message |-> "Refund has been processed"]
           ELSE /\ UNCHANGED support_actions
                /\ toolResult' = [NoToolResult EXCEPT
                                     !.tool = "process_refund",
                                     !.message = "Failed to process refund"]
    /\ UNCHANGED <<conversations, messages, customers, nextMessageId, now,
                   loop, req>>
    /\ UNCHANGED <<active_connections, sockets>>

\* Variant: cancelling also clears the plan.
update_customer_subscription_clears(cust, action, new_plan) ==
    IF action = "cancel"
    THEN [cust EXCEPT !.subscription_status = "cancelled",
                      !.subscription_plan = "none"]
    ELSE IF action = "pause"
    THEN [cust EXCEPT !.subscription_status = "paused"]
    ELSE IF action = "change_plan"
    THEN [cust EXCEPT !.subscription_plan = new_plan]
    ELSE cust

\* manage_subscription, "Update customer subscription": the if / elif chain
\* over the action; an action it does not name changes nothing.
update_customer_subscription(cust, action, new_plan) ==
    IF action = "cancel"
    THEN [cust EXCEPT !.subscription_status = "cancelled"]
    ELSE IF action = "pause"
    THEN [cust EXCEPT !.subscription_status = "paused"]
    ELSE IF action = "change_plan"
    THEN [cust EXCEPT !.subscription_plan = new_plan]
    ELSE cust

\* manage_subscription: the Customer is looked up by email alone.  The
\* SupportAction and the Customer change are committed together; for an
\* action that is none of cancel, pause, change_plan the local variable
\* message is unbound when the result is built after the commit, and the
\* except branch returns a failure.
manage_subscription(email, action, new_plan, dbok) ==
    /\ Len(support_actions) < MaxActions
    /\ LET c == FindCustomer(email)
           id == Len(support_actions) + 1
           row == NewAction("subscription_" \o action, "completed", email,
                            action, customers[c].subscription_plan,
                            IF action = "change_plan" THEN new_plan ELSE "null",
                            "")
           cust == update_customer_subscription(customers[c], action, new_plan)
           known == action \in {"cancel", "pause", "change_plan"}
       IN  IF c = 0
           THEN /\ UNCHANGED <<support_actions, customers>>
                /\ toolResult' = [NoToolResult EXCEPT
                                     !.tool = "manage_subscription",
                                     !.message = "Customer not found"]
           ELSE IF ~dbok
           THEN /\ UNCHANGED <<support_actions, customers>>
                /\ toolResult' = [NoToolResult EXCEPT
                                     !.tool = "manage_subscription",
                                     !.message = "Failed to manage subscription"]
           ELSE /\ support_actions' = Append(support_actions, row)
                /\ customers' = [customers EXCEPT ![c] = cust]
                /\ toolResult' =
                       IF known
                       THEN [tool |-> "manage_subscription", success |-> TRUE,
                             action_id |-> id, reference |-> <<"SUB", id>>,
                             message |-> "Subscription updated"]
                       ELSE [NoToolResult EXCEPT
                                !.tool = "manage_subscription",
                                !.action_id = id,
                                !.message = "Failed to manage subscription"]
    /\ UNCHANGED <<conversations, messages, nextMessageId, now, loop, req>>
    /\ UNCHANGED <<active_connections, sockets>>

\* escalate_to_human: logs the escalation as a pending SupportAction.
escalate_to_human(email, reason, dbok) ==
    /\ Len(support_actions) < MaxActions
    /\ LET id == Len(support_actions) + 1
           row == NewAction("escalate_to_human", "pending", email, "", "", "",
                            reason)
       IN  IF dbok
           THEN /\ support_actions' = Append(support_actions, row)
                /\ toolResult' = [tool |-> "escalate_to_human",
                                  success |-> TRUE, action_id |-> id,
                                  reference |-> <<"ESC", id>>,
                                  message |-> "Escalated to a human agent"]
           ELSE /\ UNCHANGED support_actions
                /\ toolResult' = [NoToolResult EXCEPT
                                     !.tool = "escalate_to_human",
                                     !.message = "Failed to escalate"]
    /\ UNCHANGED <<conversations, messages, customers, nextMessageId, now,
                   loop, req>>
    /\ UNCHANGED <<active_connections, sockets>>

\* ---------------------------------------------------------- specifications
\* The chat service driven by one handler at a time.
MainRequests == {"r1"}

Next ==
    \/ \E r \in MainRequests, o \in Orgs, e \in Emails, n \in CustomerNames,
          ok \in BOOLEAN :
           /\ Len(conversations) < MaxConversations
           /\ create_conversation(r, o, e, n, ok)
    \/ \E r \in MainRequests, s \in SessionIds, c \in Contents,
          t \in SenderTypes, ok \in BOOLEAN :
           send_message_begin(r, s, c, t, ok)
    \/ \E r \in MainRequests, f \in BOOLEAN, x \in ModelTexts :
           send_message_generate(r, f, x)
    \/ \E r \in MainRequests, ok \in BOOLEAN : send_message_commit(r, ok)
    \/ \E r \in MainRequests, s \in SessionIds, ok \in BOOLEAN :
           escalate_conversation(r, s, DefaultReason, ok)
    \/ \E s \in SessionIds, x \in {"resolved", "archived"} :
           update_conversation_status(s, x)
    \/ \E r \in MainRequests : Respond(r)

Spec == Init /\ [][Next]_vars

\* The same service with the database clock running and the read operations.
NextRead ==
    \/ Tick
    \/ \E r \in MainRequests, e \in Emails, ok \in BOOLEAN :
           /\ Len(conversations) < MaxConversations
           /\ create_conversation(r, "demo", e, NoName, ok)
    \/ \E r \in MainRequests, s \in SessionIds, c \in Contents,
          t \in SenderTypes, ok \in BOOLEAN :
           send_message_begin(r, s, c, t, ok)
    \/ \E r \in MainRequests, f \in BOOLEAN, x \in ModelTexts :
           send_message_generate(r, f, x)
    \/ \E r \in MainRequests, ok \in BOOLEAN : send_message_commit(r, ok)
    \/ \E r \in MainRequests, s \in SessionIds, x \in Reasons, ok \in BOOLEAN :
           escalate_conversation(r, s, x, ok)
    \/ \E r \in MainRequests, s \in SessionIds :
           get_conversation_history(r, s)
    \/ \E r \in MainRequests, s \in SessionIds :
           get_conversation_summary(r, s)
    \/ \E r \in MainRequests : Respond(r)

SpecRead == Init /\ [][NextRead]_vars

\* Turns submitted by two clients at once.
NextTurns ==
    \/ \E r \in Requests, e \in Emails, ok \in BOOLEAN :
           /\ Len(conversations) < MaxTurnConversations
           /\ create_conversation(r, "demo", e, NoName, ok)
    \/ \E r \in Requests, s \in SessionIds, c \in Contents,
          t \in SenderTypes, ok \in BOOLEAN :
           send_message_begin(r, s, c, t, ok)
    \/ \E r \in Requests, f \in BOOLEAN, x \in ModelTexts :
           send_message_generate(r, f, x)
    \/ \E r \in Requests, ok \in BOOLEAN : send_message_commit(r, ok)
    \/ \E r \in Requests : Respond(r)

SpecTurns == Init /\ [][NextTurns]_vars

\* The executors, called as tools, next to conversations being started.
NextExec ==
    \/ \E r \in MainRequests, o \in Orgs, e \in Emails, ok \in BOOLEAN :
           /\ Len(conversations) < MaxConversations
           /\ create_conversation(r, o, e, NoName, ok)
    \/ \E r \in MainRequests : Respond(r)
    \/ \E e \in Emails, ok \in BOOLEAN : process_refund(e, ok)
    \/ \E e \in Emails, a \in SubscriptionActions, p \in Plans,
          ok \in BOOLEAN : manage_subscription(e, a, p, ok)
    \/ \E e \in Emails, x \in Reasons, ok \in BOOLEAN :
           escalate_to_human(e, x, ok)

SpecExec == Init /\ [][NextExec]_vars

\* Customer turns, escalations and summaries on conversations of any status.
NextCount ==
    \/ \E r \in MainRequests, e \in Emails, ok \in BOOLEAN :
           /\ Len(conversations) < MaxConversations
           /\ create_conversation(r, "demo", e, NoName, ok)
    \/ \E r \in MainRequests, s \in SessionIds, c \in Contents,
          ok \in BOOLEAN :
           send_message_begin(r, s, c, "customer", ok)
    \/ \E r \in MainRequests, f \in BOOLEAN, x \in ModelTexts :
           send_message_generate(r, f, x)
    \/ \E r \in MainRequests, ok \in BOOLEAN : send_message_commit(r, ok)
    \/ \E r \in MainRequests, s \in SessionIds, ok \in BOOLEAN :
           escalate_conversation(r, s, DefaultReason, ok)
    \/ \E s \in SessionIds, x \in {"resolved", "archived"} :
           update_conversation_status(s, x)
    \/ \E r \in MainRequests, s \in SessionIds :
           get_conversation_summary(r, s)
    \/ \E r \in MainRequests : Respond(r)

SpecCount == Init /\ [][NextCount]_vars

\* WebSocket handlers connecting, failing and disconnecting.
NextWs ==
    \/ \E r \in MainRequests, e \in Emails, ok \in BOOLEAN :
           /\ Len(conversations) < MaxConversations
           /\ create_conversation(r, "demo", e, NoName, ok)
    \/ \E r \in MainRequests : Respond(r)
    \/ \E w \in Sockets, s \in SessionIds \ {0} : connect(w, s)
    \/ \E w \in Sockets : receive_disconnect(w)
    \/ \E w \in Sockets, f \in Frames : receive_failing_frame(w, f)

SpecWs == Init /\ [][NextWs]_vars

\* Turns on conversations whose ai_enabled flag a human agent switches.
NextAgent ==
    \/ \E r \in MainRequests, e \in Emails, ok \in BOOLEAN :
           /\ Len(conversations) < MaxConversations
           /\ create_conversation(r, "demo", e, NoName, ok)
    \/ \E r \in MainRequests, s \in SessionIds, c \in Contents,
          t \in SenderTypes, ok \in BOOLEAN :
           send_message_begin(r, s, c, t, ok)
    \/ \E r \in MainRequests, f \in BOOLEAN, x \in ModelTexts :
           send_message_generate(r, f, x)
    \/ \E r \in MainRequests, ok \in BOOLEAN : send_message_commit(r, ok)
    \/ \E s \in SessionIds, b \in BOOLEAN :
           update_conversation_ai_enabled(s, b)
    \/ \E r \in MainRequests : Respond(r)

SpecAgent == Init /\ [][NextAgent]_vars

\* Turns received over a WebSocket that may drop at any moment.
NextSocket ==
    \/ \E r \in MainRequests, e \in Emails, ok \in BOOLEAN :
           /\ Len(conversations) < MaxConversations
           /\ create_conversation(r, "demo", e, NoName, ok)
    \/ \E r \in MainRequests, s \in SessionIds, c \in Contents,
          ok \in BOOLEAN :
           send_message_begin(r, s, c, "customer", ok)
    \/ \E r \in MainRequests, f \in BOOLEAN, x \in ModelTexts :
           send_message_generate(r, f, x)
    \/ \E r \in MainRequests, ok \in BOOLEAN : send_message_commit(r, ok)
    \/ \E r \in MainRequests : Disconnect(r)
    \/ \E r \in MainRequests : Respond(r)

SpecSocket == Init /\ [][NextSocket]_vars

\* ------------------------------------------------------------ properties
InTurn(r) == req[r].op = "send" /\ req[r].pc \in {"flushed", "generated"}

Returned(r, op) == req[r].pc = "done" /\ req[r].op = op

\* The Messages of one conversation in the order of their insertion.
RECURSIVE SortedIds(_)
SortedIds(ids) ==
    IF ids = {} THEN <<>>
    ELSE LET least == CHOOSE i \in ids : \A j \in ids : i <= j
         IN  <<least>> \o SortedIds(ids \ {least})

Row(id) == CHOOSE m \in messages : m.id = id

ConversationSequence(conv) ==
    LET ids == SortedIds({m.id : m \in CommittedMessages(conv)})
    IN  [i \in DOMAIN ids |-> Row(ids[i])]

\* C1: escalating a conversation that is already escalated appends no
\* Message and leaves the status escalated.
C1_EscalateIdempotent ==
    [][\A r \in MainRequests, s \in SessionIds, x \in Reasons :
          LET conv == FindConversation(s)
          IN  (/\ conv # 0
               /\ conversations[conv].status = "escalated"
               /\ escalate_conversation(r, s, x, TRUE))
              => /\ messages' = messages
                 /\ conversations'[conv].status = "escalated"]_vars

\* C2: turns on one conversation are serialized.  No two turns on the same
\* conversation are in progress at once, and in the stored sequence of the
\* conversation every customer Message is directly followed by the ai
\* Message of its turn and every ai Message directly preceded by the
\* customer Message of its turn.
C2_TurnsSerialized ==
    /\ \A r1, r2 \in Requests :
           (r1 # r2 /\ InTurn(r1) /\ InTurn(r2)) => req[r1].conv # req[r2].conv
    /\ \A conv \in DOMAIN conversations :
           LET seq == ConversationSequence(conv)
               n == Len(seq)
           IN  \A i \in 1..n :
                   /\ seq[i].sender_type = "customer" =>
                          (i < n /\ seq[i + 1].sender_type = "ai")
                   /\ seq[i].sender_type = "ai" =>
                          (i > 1 /\ seq[i - 1].sender_type = "customer")

\* C2 witness: two clients have each completed a turn on the same
\* conversation and both responses are still outstanding.
C2_Witness ==
    /\ Returned("r1", "send") /\ Returned("r2", "send")
    /\ req["r1"].result.kind = "ok" /\ req["r2"].result.kind = "ok"
    /\ req["r1"].sender = "customer" /\ req["r2"].sender = "customer"
    /\ req["r1"].conv = req["r2"].conv
    /\ Cardinality(CommittedMessages(req["r1"].conv)) = 4

\* C3: the Messages of a conversation have strictly increasing creation
\* times in the order of their insertion, and get_conversation_history
\* returns them in that order.
C3_StrictCreationOrder ==
    /\ \A m1, m2 \in messages :
           (m1.conversation_id = m2.conversation_id /\ m1.id < m2.id)
               => m1.created_at < m2.created_at
    /\ \A r \in Requests :
           (Returned(r, "history") /\ req[r].result.kind = "ok") =>
               LET h == req[r].result.history
               IN  \A i, j \in DOMAIN h : i < j => h[i] < h[j]

\* C4: a turn is all or nothing.  While a turn is in progress none of its
\* Messages is committed; a turn that ended in an exception has committed
\* none; a turn that returned has committed the sender's Message and, for a
\* customer turn, the ai Message, both in the addressed conversation.
C4_TurnAtomic ==
    \A r \in Requests :
        LET q == req[r]
            mine == {m \in messages : m.id = q.result.message_id}
            ais == {m \in messages : m.id = q.result.ai_message_id}
        IN  /\ InTurn(r) => mine = {}
            /\ (Returned(r, "send") /\ q.result.kind # "ok") =>
                   /\ mine = {}
                   /\ q.pending = {}
            /\ (Returned(r, "send") /\ q.result.kind = "ok") =>
                   /\ \E m \in mine : /\ m.conversation_id = q.conv
                                      /\ m.sender_type = q.sender
                   /\ q.sender = "customer" =>
                          \E a \in ais : /\ a.conversation_id = q.conv
                                         /\ a.sender_type = "ai"

\* C4 witness: the commit of a customer turn failed after the customer
\* Message was flushed and the gateway had answered.
C4_Witness ==
    \E r \in Requests :
        /\ Returned(r, "send")
        /\ req[r].result.kind = "DatabaseError"
        /\ req[r].result.message_id # 0
        /\ req[r].ai.called

\* C5: an operation issued for one tenant never reuses a Customer row of
\* another tenant: the Customer a started conversation is bound to is not a
\* row of a tenant other than the caller's.
C5_TenantIsolation ==
    \A r \in Requests :
        (Returned(r, "start") /\ req[r].result.kind = "ok") =>
            customers[req[r].customer].organization_id \in {req[r].org, NoOrg}

\* C6: when the generation call fails in a turn, send_message does not
\* raise because of it; the result it returns names the customer Message and
\* a committed ai Message whose content is the fixed fallback text, and the
\* Messages read as history before are still stored unchanged.
C6_FallbackTurn ==
    \A r \in Requests :
        (Returned(r, "send") /\ req[r].ai.called /\ req[r].ai.failed) =>
            LET q == req[r]
                res == q.result
            IN  /\ res.kind \in {"ok", "DatabaseError"}
                /\ \A h \in q.history : h.id # res.message_id => h \in messages
                /\ res.kind = "ok" =>
                       /\ res.message_id # 0
                       /\ res.ai_message_id # 0
                       /\ res.ai_message_id # res.message_id
                       /\ res.ai_response = FallbackResponse
                       /\ \E c \in messages :
                              /\ c.id = res.message_id
                              /\ c.sender_type = "customer"
                              /\ c \in q.history
                       /\ \E a \in messages :
                              /\ a.id = res.ai_message_id
                              /\ a.conversation_id = q.conv
                              /\ a.sender_type = "ai"
                              /\ a.content = FallbackResponse
                              /\ a \notin q.history

\* C6 witness: a turn whose generation call failed has returned, on a
\* conversation that already held Messages.
C6_Witness ==
    \E r \in Requests :
        /\ Returned(r, "send")
        /\ req[r].ai.failed
        /\ req[r].result.kind = "ok"
        /\ Cardinality(req[r].history) >= 2

\* C7: the result of a turn carries the error flag exactly when the
\* generation call of that turn failed.
C7_ErroredIffFailed ==
    \A r \in Requests :
        (Returned(r, "send") /\ req[r].result.kind = "ok" /\ req[r].ai.called)
            => (req[r].result.error <=> req[r].ai.failed)

\* C8: the result the gateway returns when the generation call fails is
\* the same every time, has a fixed confidence below that of a successful
\* response, and carries no suggested actions.
C8_FallbackResult ==
    \A r \in Requests :
        (req[r].ai.called /\ req[r].ai.failed) =>
            /\ req[r].ai.response = FallbackResponse
            /\ req[r].ai.confidence = FallbackConfidence
            /\ FallbackConfidence < SuccessConfidence
            /\ req[r].ai.suggested_actions = <<>>

\* C9: send_message on a session id that resolves to no Conversation, or
\* to an archived one, ends with NotFound and records nothing.
C9_NotFoundRecordsNothing ==
    [][\A r \in MainRequests, s \in SessionIds, c \in Contents,
          t \in SenderTypes :
          LET conv == FindConversation(s)
          IN  (/\ conv = 0 \/ conversations[conv].status = "archived"
               /\ send_message_begin(r, s, c, t, TRUE))
              => /\ req'[r].pc = "done"
                 /\ req'[r].result.kind = "ValueError"
                 /\ req'[r].pending = {}
                 /\ UNCHANGED <<conversations, messages, customers,
                                support_actions, nextMessageId>>]_vars

\* C10, as claimed: whenever an executor has returned, the SupportAction it
\* created is in a terminal status.
C10_ExecutorsLeaveTerminal ==
    toolResult.action_id # 0 =>
        support_actions[toolResult.action_id].status \in TerminalActionStatus

\* C10, amended: process_refund and manage_subscription never return, with
\* a success or a failure result, while a SupportAction they created is
\* pending or in_progress; escalate_to_human returns with its SupportAction
\* pending, and no other SupportAction is ever in a non-terminal status.
C10_RefundSubscriptionTerminal ==
    /\ toolResult.action_id # 0 =>
           LET a == support_actions[toolResult.action_id]
           IN  IF toolResult.tool = "escalate_to_human"
               THEN a.status = "pending"
               ELSE a.status \in TerminalActionStatus
    /\ \A i \in DOMAIN support_actions :
           support_actions[i].status \notin TerminalActionStatus
               => support_actions[i].action_type = "escalate_to_human"

\* C10 witness: process_refund has returned its reference and its
\* SupportAction is completed.
C10_Witness ==
    /\ toolResult.tool = "process_refund"
    /\ toolResult.success
    /\ support_actions[toolResult.action_id].status = "completed"

\* C11: manage_subscription called with action change_plan and an empty
\* new_plan returns a failure result, leaves the Customer's plan and status
\* as they were and adds no SupportAction in a non-terminal status.
C11_ChangePlanNeedsPlan ==
    [][\A e \in Emails, ok \in BOOLEAN :
          manage_subscription(e, "change_plan", "", ok)
              => /\ ~toolResult'.success
                 /\ customers' = customers
                 /\ \A i \in DOMAIN support_actions' :
                        i \notin DOMAIN support_actions =>
                            support_actions'[i].status \in TerminalActionStatus]_vars

\* C12: process_refund, when the database accepts its commit, adds exactly
\* one SupportAction, of action_type refund and status completed, changes no
\* other SupportAction, and returns the reference REF-<id> made of that
\* row's id alone, so two refunds never get the same reference; when the
\* commit fails it returns a failure result and stores nothing.
C12_RefundCompletedWithReference ==
    [][\A e \in Emails :
          /\ process_refund(e, TRUE) =>
                 LET id == Len(support_actions) + 1
                 IN  /\ Len(support_actions') = id
                     /\ \A i \in DOMAIN support_actions :
                            support_actions'[i] = support_actions[i]
                     /\ support_actions'[id].action_type = "refund"
                     /\ support_actions'[id].status = "completed"
                     /\ toolResult'.success
                     /\ toolResult'.action_id = id
                     /\ toolResult'.reference = <<"REF", id>>
                     /\ (toolResult.tool = "process_refund" /\ toolResult.success)
                            => toolResult'.reference # toolResult.reference
          /\ process_refund(e, FALSE) =>
                 /\ support_actions' = support_actions
                 /\ ~toolResult'.success]_vars

\* C12 witness: a second refund has returned, after a first one was stored.
C12_Witness ==
    /\ toolResult.tool = "process_refund"
    /\ toolResult.success
    /\ toolResult.action_id = 2
    /\ support_actions[1].action_type = "refund"
    /\ support_actions[2].status = "completed"

\* C13: when the side effect of an executor fails, the failure is returned
\* in the result and a SupportAction of that call is stored with status
\* failed and an error_message; a SupportAction has an error_message
\* exactly when its status is failed.
C13_FailureRecorded ==
    /\ (/\ toolResult.tool # "none"
        /\ ~toolResult.success
        /\ toolResult.message # "Customer not found") =>
           \E i \in DOMAIN support_actions :
               /\ support_actions[i].status = "failed"
               /\ support_actions[i].error_message # ""
    /\ \A i \in DOMAIN support_actions :
           support_actions[i].error_message # ""
               <=> support_actions[i].status = "failed"

\* C14: after escalate_to_human has returned successfully its SupportAction
\* is pending and every conversation of the customer it was called for is
\* escalated and holds a system Message.
C14_EscalateExecutorTransitions ==
    (toolResult.tool = "escalate_to_human" /\ toolResult.success) =>
        LET a == support_actions[toolResult.action_id]
        IN  /\ a.status = "pending"
            /\ \A c \in DOMAIN conversations :
                   conversations[c].customer_email = a.action_data.customer_email
                       => /\ conversations[c].status = "escalated"
                          /\ \E m \in messages :
                                 /\ m.conversation_id = c
                                 /\ m.sender_type = "system"

\* C15: a SupportAction belongs to the conversation it was created for: the
\* SupportAction of a refund made for a customer who has a conversation is
\* completed and references an existing Conversation of that customer.
C15_ActionBelongsToConversation ==
    \A i \in DOMAIN support_actions :
        LET a == support_actions[i]
        IN  (/\ a.action_type = "refund"
             /\ \E c \in DOMAIN conversations :
                    conversations[c].customer_email = a.action_data.customer_email)
                => /\ a.status = "completed"
                   /\ a.conversation_id \in DOMAIN conversations
                   /\ conversations[a.conversation_id].customer_email
                          = a.action_data.customer_email

\* C16: the generation call is made in a turn only if the conversation's
\* ai_enabled flag is true, and a turn on a conversation whose flag is false
\* appends no ai Message.
C16_GatewayOnlyIfEnabled ==
    [][\A r \in MainRequests :
          /\ (\E f \in BOOLEAN, x \in ModelTexts : send_message_generate(r, f, x))
                 => conversations[req[r].conv].ai_enabled
          /\ (/\ \E ok \in BOOLEAN : send_message_commit(r, ok)
              /\ ~conversations[req[r].conv].ai_enabled)
                 => \A m \in messages' \ messages : m.sender_type # "ai"]_vars

\* C17: no operation of the service moves a conversation out of archived
\* or moves a resolved conversation back to active or escalated (the steps
\* of the human agent, who sets the status from outside, are not judged).
C17_StatusMonotonic ==
    [][\/ \E s \in SessionIds, x \in ConversationStatus :
              update_conversation_status(s, x)
       \/ \A c \in DOMAIN conversations :
              /\ conversations[c].status = "archived"
                     => conversations'[c].status = "archived"
              /\ conversations[c].status = "resolved"
                     => conversations'[c].status \in {"resolved", "archived"}]_vars

\* C18: the total_conversations counter of every Customer equals the number
\* of conversations started for that customer.
C18_TotalConversationsCounted ==
    \A c \in DOMAIN customers :
        customers[c].total_conversations =
            Cardinality({i \in DOMAIN conversations :
                            conversations[i].customer_email = customers[c].email})

\* C19: while the turn of one handler is at its generation call, a turn on
\* a different conversation can start in another handler.
C19_ParallelTurns ==
    \A a, b \in Requests, s \in SessionIds :
        (/\ a # b
         /\ req[a].op = "send" /\ req[a].pc = "flushed"
         /\ req[a].sender = "customer"
         /\ req[b].pc = "idle"
         /\ FindConversation(s) # 0
         /\ FindConversation(s) # req[a].conv
         /\ nextMessageId < MaxMessageId)
            => ENABLED send_message_begin(b, s, "hi", "customer", TRUE)

\* C20: a WebSocket that drops after the turn has started does not abort
\* the turn: the turn keeps the event loop and its flushed Message, its next
\* step stays possible, it ends in no other way than a turn on an open
\* socket, and when it has returned its customer Message and ai Message are
\* committed.
C20_DisconnectDoesNotAbort ==
    \A r \in Requests :
        (req[r].op = "send" /\ req[r].disconnected_at \in {"flushed", "generated"})
            => /\ req[r].result.kind \in {"none", "ok", "DatabaseError"}
               /\ InTurn(r) =>
                      /\ loop = r
                      /\ \E m \in req[r].pending : m.id = req[r].result.message_id
                      /\ ENABLED (\/ \E f \in BOOLEAN, x \in ModelTexts :
                                        send_message_generate(r, f, x)
                                  \/ \E ok \in BOOLEAN :
                                        send_message_commit(r, ok))
               /\ (Returned(r, "send") /\ req[r].result.kind = "ok") =>
                      /\ \E m \in messages :
                             /\ m.id = req[r].result.message_id
                             /\ m.sender_type = "customer"
                      /\ \E m \in messages :
                             /\ m.id = req[r].result.ai_message_id
                             /\ m.sender_type = "ai"

\* C20 witness: the socket dropped before the generation call of a turn,
\* and the turn has returned with both Messages committed.
C20_Witness ==
    \E r \in Requests :
        /\ Returned(r, "send")
        /\ req[r].disconnected_at = "flushed"
        /\ req[r].ai.called
        /\ req[r].result.kind = "ok"
        /\ \E m \in messages : m.id = req[r].result.ai_message_id

\* C21: the result of a turn that returned names the Message of the sender
\* recorded by that turn; when the gateway was called in the turn it also
\* names the ai Message recorded by that turn and carries that Message's
\* text; the two ids are different and both Messages belong to the
\* addressed conversation.
C21_ResultNamesMessages ==
    \A r \in Requests :
        (Returned(r, "send") /\ req[r].result.kind = "ok") =>
            LET q == req[r]
                res == q.result
            IN  /\ res.message_id # 0
                /\ \E m \in messages :
                       /\ m.id = res.message_id
                       /\ m.conversation_id = q.conv
                       /\ m.sender_type = q.sender
                       /\ q.ai.called => m \in q.history
                /\ q.ai.called =>
                       /\ res.ai_message_id # 0
                       /\ res.ai_message_id # res.message_id
                       /\ \E a \in messages :
                              /\ a.id = res.ai_message_id
                              /\ a.conversation_id = q.conv
                              /\ a.sender_type = "ai"
                              /\ a.content = res.ai_response
                              /\ a \notin q.history

\* C21 witness: a customer turn with a successful generation call has
\* returned on a conversation that already held a complete turn.
C21_Witness ==
    \E r \in Requests :
        /\ Returned(r, "send")
        /\ req[r].result.kind = "ok"
        /\ req[r].ai.called /\ ~req[r].ai.failed
        /\ req[r].result.ai_message_id = 4
        /\ Cardinality(CommittedMessages(req[r].conv)) = 4

\* C22: manage_subscription called with an email that no Customer has
\* returns a failure result, adds no SupportAction and changes no Customer.
C22_UnknownCustomerFails ==
    [][\A e \in Emails, a \in SubscriptionActions, p \in Plans, ok \in BOOLEAN :
          (/\ \A i \in DOMAIN customers : customers[i].email # e
           /\ manage_subscription(e, a, p, ok))
              => /\ ~toolResult'.success
                 /\ toolResult'.action_id = 0
                 /\ support_actions' = support_actions
                 /\ customers' = customers]_vars

\* C22 witness: manage_subscription has answered that the customer was not
\* found.
C22_Witness ==
    /\ toolResult.tool = "manage_subscription"
    /\ ~toolResult.success
    /\ toolResult.message = "Customer not found"
    /\ \E i \in DOMAIN customers : customers[i].email = "john.doe@example.com"

\* C23: there is never more than one Customer row with the same tenant and
\* email, whatever the interleaving of the handlers; starting a conversation
\* adds a Customer only for an email that has none, and never modifies an
\* existing Customer.
C23_CustomerUpsert ==
    [][/\ \A i, j \in DOMAIN customers' :
              (/\ customers'[i].email = customers'[j].email
               /\ customers'[i].organization_id = customers'[j].organization_id)
                  => i = j
       /\ \A i \in DOMAIN customers : customers'[i] = customers[i]
       /\ \A j \in DOMAIN customers' :
              j \notin DOMAIN customers =>
                  \A i \in DOMAIN customers :
                      customers[i].email # customers'[j].email]_vars

\* C23 witness: two conversations were started for an email that was new
\* and there is one Customer row for it.
C23_Witness ==
    /\ Len(conversations) = 2
    /\ \A c \in DOMAIN conversations :
           conversations[c].customer_email = "new@x.com"
    /\ Cardinality({i \in DOMAIN customers :
                        customers[i].email = "new@x.com"}) = 1

\* C27: manage_subscription called with an action that is none of cancel,
\* pause, change_plan returns a failure result, commits no SupportAction
\* and leaves every Customer as it was.
C27_UnknownActionChangesNothing ==
    [][\A e \in Emails, p \in Plans, ok \in BOOLEAN :
          manage_subscription(e, "upgrade", p, ok)
              => /\ ~toolResult'.success
                 /\ support_actions' = support_actions
                 /\ customers' = customers]_vars

\* C30: a successful manage_subscription changes only the field its action
\* names (cancel and pause the subscription_status, change_plan the
\* subscription_plan), changes no other Customer and commits exactly one
\* completed SupportAction of type subscription_<action> whose action_data
\* holds the plan the Customer had before the call as old_plan.
C30_SubscriptionFrame ==
    [][\A e \in Emails, a \in {"cancel", "pause", "change_plan"}, p \in Plans :
          (/\ \E i \in DOMAIN customers : customers[i].email = e
           /\ manage_subscription(e, a, p, TRUE))
              => LET c == CHOOSE i \in DOMAIN customers : customers[i].email = e
                     old == customers[c]
                     new == customers'[c]
                     id == Len(support_actions) + 1
                 IN  /\ toolResult'.success
                     /\ DOMAIN customers' = DOMAIN customers
                     /\ \A i \in DOMAIN customers :
                            i # c => customers'[i] = customers[i]
                     /\ new.email = old.email /\ new.name = old.name
                     /\ new.organization_id = old.organization_id
                     /\ new.total_conversations = old.total_conversations
                     /\ a = "cancel" =>
                            /\ new.subscription_status = "cancelled"
                            /\ new.subscription_plan = old.subscription_plan
                     /\ a = "pause" =>
                            /\ new.subscription_status = "paused"
                            /\ new.subscription_plan = old.subscription_plan
                     /\ a = "change_plan" =>
                            /\ new.subscription_plan = p
                            /\ new.subscription_status = old.subscription_status
                     /\ Len(support_actions') = id
                     /\ \A i \in DOMAIN support_actions :
                            support_actions'[i] = support_actions[i]
                     /\ support_actions'[id].action_type = "subscription_" \o a
                     /\ support_actions'[id].status = "completed"
                     /\ support_actions'[id].action_data.old_plan
                            = old.subscription_plan]_vars

\* C30 witness: a change_plan has returned successfully after a cancel of
\* the same Customer.
C30_Witness ==
    /\ toolResult.tool = "manage_subscription"
    /\ toolResult.success
    /\ toolResult.action_id = 2
    /\ support_actions[1].action_type = "subscription_cancel"
    /\ support_actions[2].action_type = "subscription_change_plan"
    /\ support_actions[2].action_data.old_plan = "pro"
    /\ customers[1].subscription_plan = "basic"
    /\ customers[1].subscription_status = "cancelled"

\* C24: appending a Message never changes a conversation's status: every
\* step that changes the status of a conversation is a step of the
\* escalation operation (or of the human agent, who writes the status from
\* outside the service); no step of send_message does.
C24_AppendKeepsStatus ==
    [][\/ \A c \in DOMAIN conversations :
              conversations'[c].status = conversations[c].status
       \/ \E r \in MainRequests, s \in SessionIds, x \in Reasons :
              escalate_conversation(r, s, x, TRUE)
       \/ \E s \in SessionIds, x \in ConversationStatus :
              update_conversation_status(s, x)]_vars

\* C24 witness: a customer turn whose generation call failed has returned
\* on a conversation that was escalated before the turn and still is.
C24_Witness ==
    \E r \in Requests :
        /\ Returned(r, "send")
        /\ req[r].result.kind = "ok"
        /\ req[r].ai.failed
        /\ conversations[req[r].conv].status = "escalated"
        /\ \E m \in messages :
               /\ m.conversation_id = req[r].conv
               /\ m.sender_type = "system"
               /\ m.id < req[r].result.message_id

\* C26: a send_message call whose sender_type is not customer makes no
\* generation call and its commit appends exactly one Message, of that
\* sender type and no ai Message; the result holds the id of that Message
\* and nothing of an ai Message.
C26_OtherSenderNoAI ==
    [][\A r \in MainRequests :
          (req[r].op = "send" /\ req[r].pc = "flushed"
              /\ req[r].sender # "customer") =>
              /\ ~\E f \in BOOLEAN, x \in ModelTexts :
                     send_message_generate(r, f, x)
              /\ send_message_commit(r, TRUE) =>
                     /\ \E m \in messages' :
                            /\ messages' = messages \cup {m}
                            /\ m \notin messages
                            /\ m.id = req'[r].result.message_id
                            /\ m.sender_type = req[r].sender
                            /\ m.conversation_id = req[r].conv
                     /\ ~req'[r].ai.called
                     /\ req'[r].result.ai_message_id = 0
                     /\ req'[r].result.ai_response = ""
                     /\ ~req'[r].result.error]_vars

\* C26 witness: a turn of a human agent has returned after a customer turn
\* on the same conversation, which now holds three Messages.
C26_Witness ==
    \E r \in Requests :
        /\ Returned(r, "send")
        /\ req[r].result.kind = "ok"
        /\ req[r].sender = "human_agent"
        /\ Cardinality(CommittedMessages(req[r].conv)) = 3
        /\ \E m \in messages : m.id = req[r].result.message_id
                                 /\ m.sender_type = "human_agent"

\* C25: on every existing conversation, whatever its status, a customer
\* turn is accepted and its commit appends exactly two Messages, the
\* customer Message and after it one ai Message; an escalate call appends
\* exactly one; and the message_count that get_conversation_summary
\* reports is the number of Messages stored for the conversation, so it
\* grows by 2 with a customer turn and by 1 with an escalate call.
C25_TwoMessagesPerTurn ==
    [][\A r \in MainRequests :
          /\ \A s \in SessionIds, c \in Contents :
                 (req[r].pc = "idle" /\ FindConversation(s) # 0
                     /\ send_message_begin(r, s, c, "customer", TRUE))
                     => /\ req'[r].pc = "flushed"
                        /\ messages' = messages
          /\ (req[r].pc = "generated" /\ send_message_commit(r, TRUE)) =>
                 LET conv == req[r].conv
                     new == messages' \ messages
                 IN  /\ messages \subseteq messages'
                     /\ Cardinality(new) = 2
                     /\ \A m \in new : m.conversation_id = conv
                     /\ \E m, a \in new :
                            /\ m.sender_type = "customer"
                            /\ a.sender_type = "ai"
                            /\ m.id < a.id
                            /\ \A o \in messages : o.id < m.id
          /\ \A s \in SessionIds, x \in Reasons :
                 (req[r].pc = "idle" /\ FindConversation(s) # 0
                     /\ escalate_conversation(r, s, x, TRUE))
                     => /\ messages \subseteq messages'
                        /\ Cardinality(messages' \ messages) = 1
                        /\ \A m \in messages' \ messages :
                               /\ m.conversation_id = FindConversation(s)
                               /\ m.sender_type = "system"
          /\ \A s \in SessionIds :
                 (req[r].pc = "idle" /\ FindConversation(s) # 0
                     /\ get_conversation_summary(r, s))
                     => req'[r].result.message_count =
                            Cardinality({m \in messages :
                                m.conversation_id = FindConversation(s)})]_vars

\* C25 witness: the summary of a conversation that was escalated, then
\* answered a customer turn and was archived reports three Messages.
C25_Witness ==
    \E r \in Requests :
        /\ Returned(r, "summary")
        /\ req[r].result.kind = "ok"
        /\ req[r].result.message_count = 3
        /\ req[r].result.status = "archived"
        /\ \E s, a \in messages :
               /\ s.sender_type = "system" /\ a.sender_type = "ai"
               /\ s.conversation_id = req[r].conv
               /\ a.conversation_id = req[r].conv
               /\ s.id < a.id

\* C28: a session id is a key of active_connections exactly when a handler
\* for that session is still connected, and the socket stored under it is
\* the socket of such a handler.
C28_RegistryMatchesHandlers ==
    \A sid \in SessionIds \ {0} :
        /\ sid \in DOMAIN active_connections <=>
               \E w \in Sockets : /\ sockets[w].state = "open"
                                  /\ sockets[w].session_id = sid
        /\ sid \in DOMAIN active_connections =>
               /\ sockets[active_connections[sid]].state = "open"
               /\ sockets[active_connections[sid]].session_id = sid

\* C28, the case of two connections on one session id: after the older one
\* has disconnected the newer one, still connected, keeps its entry.
C28_NewerKeepsEntry ==
    \A w \in Sockets :
        (/\ sockets[w].state = "open"
         /\ \A v \in Sockets \ {w} :
                sockets[v].state = "ended" =>
                    sockets[v].session_id = sockets[w].session_id)
            => sockets[w].session_id \in DOMAIN active_connections

\* C29: a handler that has ended has closed its database session and has
\* left no entry of its socket in active_connections.
C29_EndedHandlerCleansUp ==
    \A w \in Sockets :
        sockets[w].state = "ended" =>
            /\ ~sockets[w].db_open
            /\ ~(/\ sockets[w].session_id \in DOMAIN active_connections
                 /\ active_connections[sockets[w].session_id] = w)
=============================================================================
